---- MODULE Spec2Model ----
(***************************************************************************)
(* Batch background remover (limpiarfondo.py): main's pre-flight, task     *)
(* enumeration, the ProcessPoolExecutor phase, the sequential fallback and *)
(* the per-image pipeline procesar_imagen.                                 *)
(*                                                                         *)
(* Strings are sequences of one-character strings, so that splitext, stem, *)
(* lower and the f-string results are computed and not assumed.  CHECK and *)
(* CROSS stand for the two emoji the result strings start with; a filename *)
(* is any string directory enumeration returns, b_JPG has the CHECK emoji  *)
(* in its name.                                                            *)
(***************************************************************************)
EXTENDS Integers, Sequences, FiniteSets, TLC

\* ---------------------------------------------------------------- bounds
MaxFiles == 3

\* ------------------------------------------------------------- filenames
CHECK == "[check]"
CROSS == "[cross]"

a_jpg == <<"a", ".", "j", "p", "g">>
a_png == <<"a", ".", "p", "n", "g">>
b_JPG == <<"b", CHECK, ".", "J", "P", "G">>
n_txt == <<"n", ".", "t", "x", "t">>

\* the entries a directory listing is drawn from
Entradas == {a_jpg, a_png, b_JPG, n_txt}

VALID_EXTENSIONS ==
    { <<".", "j", "p", "g">>, <<".", "j", "p", "e", "g">>, <<".", "p", "n", "g">>,
      <<".", "w", "e", "b", "p">>, <<".", "b", "m", "p">>, <<".", "t", "i", "f", "f">> }

Mayusculas ==
    [A |-> "a", B |-> "b", E |-> "e", F |-> "f", G |-> "g", I |-> "i", J |-> "j",
     M |-> "m", N |-> "n", P |-> "p", T |-> "t", W |-> "w", X |-> "x"]

\* str.lower, character by character
Lower(s) == [k \in DOMAIN s |-> IF s[k] \in DOMAIN Mayusculas THEN Mayusculas[s[k]] ELSE s[k]]

\* str.rfind("."), 1-based, 0 when there is no dot
RFindDot(s) ==
    IF \E k \in DOMAIN s : s[k] = "."
    THEN CHOOSE k \in DOMAIN s : s[k] = "." /\ \A j \in DOMAIN s : s[j] = "." => j <= k
    ELSE 0

\* os.path.splitext(f)[1]: the last dot starts the extension unless only dots precede it
SplitExt(s) ==
    LET d == RFindDot(s) IN
    IF d > 0 /\ \E k \in 1..(d - 1) : s[k] # "."
    THEN SubSeq(s, d, Len(s))
    ELSE <<>>

\* Path(filename).stem
Stem(s) ==
    LET d == RFindDot(s) IN
    IF d > 1 /\ d < Len(s) THEN SubSeq(s, 1, d - 1) ELSE s

SUFIJO == <<"_", "s", "i", "n", "_", "f", "o", "n", "d", "o", ".", "w", "e", "b", "p">>

\* output_filename = f"{name}_sin_fondo.webp"
OutputFilename(filename) == Stem(filename) \o SUFIJO

\* "CHECK" in resultado
Contiene(s, c) == \E k \in DOMAIN s : s[k] = c

Min(x, y) == IF x <= y THEN x ELSE y

\* what a file of the input directory holds, which fixes what the (deterministic)
\* collaborators do with it
Fates == {"ok", "missing", "empty", "remove_raises", "remove_empty", "decode_error", "save_error"}

VARIABLES
    listing,        \* what os.listdir(input_folder) returns, in listing order
    entorno,        \* filename -> fate
    previo,         \* the pre-flight so far: output folder created, outcome of the write probe
    anterior,       \* what an earlier run of main on this directory did, <<>> in the first run
    pc,             \* position of main
    archivos,       \* the candidate files, in listing order
    max_workers,
    futuros,        \* one future per submitted task: estado, paso, resultado
    consumidos,     \* results taken from executor.map so far
    fb_i,           \* index of the fallback loop
    fb_paso,        \* position of the fallback's procesar_imagen call
    outdir,         \* output filename -> "absent" | "empty" | "full"
    remove_calls,   \* the files remove() was invoked on
    resultados_exitosos,
    resultados_con_error,
    resumen,        \* the summary, once printed
    ejec_pool,      \* how often each task was started by a pool worker
    ejec_seq,       \* how often each task was started by the fallback loop
    orden_fin,      \* task indices in the order the pool workers finished them
    salida          \* the progress lines printed: [i, idx, fase, kind, causa, clase]

vars == <<listing, entorno, previo, anterior, pc, archivos, max_workers, futuros, consumidos, fb_i, fb_paso,
          outdir, remove_calls, resultados_exitosos, resultados_con_error, resumen, ejec_pool,
          ejec_seq, orden_fin, salida>>

OutNames == {OutputFilename(f) : f \in Entradas}

EsImagen(f) == Lower(SplitExt(f)) \in VALID_EXTENSIONS

RECURSIVE Filtrar(_)
\* for f in os.listdir(input_folder): if splitext(f)[1].lower() in VALID_EXTENSIONS: append
Filtrar(s) ==
    IF s = <<>> THEN <<>>
    ELSE (IF EsImagen(Head(s)) THEN <<Head(s)>> ELSE <<>>) \o Filtrar(Tail(s))

Listings ==
    {s \in UNION {[1..n -> Entradas] : n \in 0..MaxFiles} :
        \A j, k \in DOMAIN s : j # k => s[j] # s[k]}

Res(k, c, m) == [kind |-> k, causa |-> c, msg |-> m]
NoRes == Res("none", "none", <<>>)

\* an outcome of one step: next position ("ret" returns res, "raise" lets an exception
\* out of the call), the output directory afterwards, whether remove() was invoked
Paso(p, r, od, rem) == [paso |-> p, res |-> r, od |-> od, rem |-> rem]

Capturar_Propaga(filename, causa, texto, od, rem) ==
    {Paso("raise", NoRes, od, rem)}

\* except Exception as e: return f"CROSS Error con {filename}: {str(e)}\n{tb}"
Capturar(filename, causa, texto, od, rem) ==
    {Paso("ret", Res("exception", causa,
                     <<CROSS, "Error con ">> \o filename \o <<": ", texto, "\n", "Traceback">>), od, rem)}

NoEncontrado_Toca(filename, od) ==
    {Paso("ret", Res("not_found", "missing", <<CROSS, "Archivo no encontrado: ">> \o filename),
          [od EXCEPT ![OutputFilename(filename)] = "empty"], FALSE)}

NoEncontrado_ComoVacio(filename, od) ==
    {Paso("ret", Res("not_found", "missing", <<CROSS, "No se pudieron leer datos de: ">> \o filename), od, FALSE)}

\* if not os.path.exists(input_path): return f"CROSS Archivo no encontrado: {filename}"
NoEncontrado(filename, od) ==
    {Paso("ret", Res("not_found", "missing", <<CROSS, "Archivo no encontrado: ">> \o filename), od, FALSE)}

Exito(filename, od) ==
    {Paso("ret", Res("success", "none",
          <<CHECK, "Procesado exitosamente: ">> \o filename \o <<" -> ">> \o OutputFilename(filename)),
          od, FALSE)}

ErrorAlGuardar(filename, od) ==
    {Paso("ret", Res("save_unverified", "unverified", <<CROSS, "Error al guardar: ">> \o filename),
          od, FALSE)}

Verificar_SoloExiste(filename, od) ==
    IF od[OutputFilename(filename)] # "absent" THEN Exito(filename, od) ELSE ErrorAlGuardar(filename, od)

\* if os.path.exists(output_path) and os.path.getsize(output_path) > 0: return the
\* success message, else: return the save-error message
Verificar(filename, od) ==
    IF od[OutputFilename(filename)] = "full" THEN Exito(filename, od) ELSE ErrorAlGuardar(filename, od)

\* One step of procesar_imagen for filename at position p with output directory od:
\* the set of outcomes.  "read" runs from the existence test to the decoding of
\* remove()'s output; Image.save is the opening of the file, which truncates it
\* ("save_open"), and the writing of the encoded image ("save_write"); "verify" is
\* the test of existence and size and the return.
procesar_imagen(filename, p, od) ==
    LET fate == entorno[filename]
        out  == OutputFilename(filename)
    IN
    IF p = "read" THEN
        IF fate = "missing"
        THEN NoEncontrado(filename, od)
        ELSE IF fate = "empty"
        THEN {Paso("ret", Res("no_data", "empty",
                    <<CROSS, "No se pudieron leer datos de: ">> \o filename), od, FALSE)}
        ELSE IF fate = "remove_raises"
        THEN Capturar(filename, "remove_raises", "rembg failed", od, TRUE)
        ELSE IF fate = "remove_empty"
        THEN {Paso("ret", Res("rembg_empty", "remove_empty",
                    <<CROSS, "Error con ">> \o filename \o <<": rembg no devolvio datos">>), od, TRUE)}
        ELSE IF fate = "decode_error"
        THEN Capturar(filename, "decode_error", "cannot identify image file", od, TRUE)
        ELSE {Paso("save_open", NoRes, od, TRUE)}
    ELSE IF p = "save_open" THEN
        IF fate = "save_error"
        THEN UNION {Capturar(filename, "save_error", "cannot write", od2, FALSE) :
                od2 \in {od, [od EXCEPT ![out] = "empty"], [od EXCEPT ![out] = "absent"]}}
        ELSE {Paso("save_write", NoRes, [od EXCEPT ![out] = "empty"], FALSE)}
    ELSE IF p = "save_write" THEN
        {Paso("verify", NoRes, [od EXCEPT ![out] = "full"], FALSE)}
    ELSE \* p = "verify"
        Verificar(filename, od)

N == Len(archivos)

Futuro(e, p, r) == [estado |-> e, paso |-> p, resultado |-> r]

Ejecutando == {k \in DOMAIN futuros : futuros[k].estado = "running"}

Roto == \E k \in DOMAIN futuros : futuros[k].estado = "broken"

\* if CHECK in resultado: resultados_exitosos += 1 else: resultados_con_error += 1
Contar(resultado) ==
    IF Contiene(resultado.msg, CHECK)
    THEN /\ resultados_exitosos' = resultados_exitosos + 1
         /\ UNCHANGED resultados_con_error
    ELSE /\ resultados_con_error' = resultados_con_error + 1
         /\ UNCHANGED resultados_exitosos

\* the text of a result between its emoji and the filename
Clase(r) == r.msg[2]

Linea(i, idx, fase, r) ==
    [i |-> i, idx |-> idx, fase |-> fase, kind |-> r.kind, causa |-> r.causa, clase |-> Clase(r)]

Init ==
    /\ listing \in Listings
    /\ entorno \in [Entradas -> Fates]
    /\ \A f \in Entradas :
          (~EsImagen(f) \/ \A k \in DOMAIN listing : listing[k] # f) => entorno[f] = "ok"
    /\ pc = "crear_carpeta"
    /\ previo = [carpeta |-> FALSE, permisos |-> "none"]
    /\ anterior = <<>>
    /\ archivos = <<>>
    /\ max_workers = 0
    /\ futuros = <<>>
    /\ consumidos = 0
    /\ fb_i = 0
    /\ fb_paso = "none"
    /\ outdir = [o \in OutNames |-> "absent"]
    /\ remove_calls = {}
    /\ resultados_exitosos = 0
    /\ resultados_con_error = 0
    /\ resumen = <<>>
    /\ ejec_pool = <<>>
    /\ ejec_seq = <<>>
    /\ orden_fin = <<>>
    /\ salida = <<>>

\* os.makedirs(output_folder, exist_ok=True), or the early return when it raises
CrearCarpeta ==
    /\ pc = "crear_carpeta"
    /\ \/ /\ previo' = [previo EXCEPT !.carpeta = TRUE]
          /\ pc' = "permisos"
       \/ /\ pc' = "abort"
          /\ UNCHANGED previo
    /\ UNCHANGED <<listing, entorno, anterior, archivos, max_workers, futuros, consumidos, fb_i,
                   fb_paso, outdir, remove_calls, resultados_exitosos, resultados_con_error,
                   resumen, ejec_pool, ejec_seq, orden_fin, salida>>

TrasPermisos_Ignora(ok) == "buscar"

\* if not verificar_permisos(output_folder): ... return
TrasPermisos(ok) == IF ok THEN "buscar" ELSE "abort"

\* verificar_permisos(output_folder): the probe file is written and removed, or the
\* attempt raises and the function returns False
VerificarPermisos ==
    /\ pc = "permisos"
    /\ \E ok \in BOOLEAN :
          /\ previo' = [previo EXCEPT !.permisos = IF ok THEN "ok" ELSE "fail"]
          /\ pc' = TrasPermisos(ok)
    /\ UNCHANGED <<listing, entorno, anterior, archivos, max_workers, futuros, consumidos, fb_i,
                   fb_paso, outdir, remove_calls, resultados_exitosos, resultados_con_error,
                   resumen, ejec_pool, ejec_seq, orden_fin, salida>>

\* the listing loop, the early return on an empty list, the counters' initialisation;
\* the list os.listdir returned is a temporary of the loop and is gone after it
BuscarArchivos ==
    /\ pc = "buscar"
    /\ archivos' = Filtrar(listing)
    /\ listing' = <<>>
    /\ pc' = IF archivos' = <<>> THEN "abort" ELSE "dispatch"
    /\ resultados_exitosos' = 0
    /\ resultados_con_error' = 0
    /\ ejec_pool' = [k \in DOMAIN archivos' |-> 0]
    /\ ejec_seq' = [k \in DOMAIN archivos' |-> 0]
    /\ UNCHANGED <<entorno, previo, anterior, max_workers, futuros, consumidos, fb_i, fb_paso,
                   outdir, remove_calls, resumen, orden_fin, salida>>

MaxWorkers_SinTope(n) == n

\* max_workers = min(2, len(archivos))
MaxWorkers(n) == Min(2, n)

\* max_workers = min(2, len(archivos)); the pool is built and executor.map submits every task
Dispatch ==
    /\ pc = "dispatch"
    /\ max_workers' = MaxWorkers(N)
    /\ futuros' = [k \in DOMAIN archivos |-> Futuro("pending", "none", NoRes)]
    /\ consumidos' = 0
    /\ pc' = "pool"
    /\ UNCHANGED <<listing, entorno, previo, anterior, archivos, fb_i, fb_paso, outdir, remove_calls, resultados_exitosos,
                   resultados_con_error, resumen, ejec_pool, ejec_seq, orden_fin, salida>>

EntrarFallback_Reanudar ==
    /\ fb_i' = IF consumidos < N THEN consumidos + 1 ELSE N
    /\ pc' = "fallback"
    /\ fb_paso' = "read"
    /\ ejec_seq' = [ejec_seq EXCEPT ![fb_i'] = @ + 1]

\* the except clause: the sequential loop starts over the whole list, counters as they are
EntrarFallback ==
    /\ pc' = "fallback"
    /\ fb_i' = 1
    /\ fb_paso' = "read"
    /\ ejec_seq' = [ejec_seq EXCEPT ![1] = @ + 1]

\* ProcessPoolExecutor(...) raises: nothing was submitted
PoolConstructFail ==
    /\ pc = "dispatch"
    /\ max_workers' = MaxWorkers(N)
    /\ EntrarFallback
    /\ UNCHANGED <<listing, entorno, previo, anterior, archivos, futuros, consumidos, outdir, remove_calls, resultados_exitosos,
                   resultados_con_error, resumen, ejec_pool, orden_fin, salida>>

\* a free worker process takes the oldest task that is still waiting
WorkerTake ==
    /\ pc = "pool"
    /\ ~Roto
    /\ Cardinality(Ejecutando) < max_workers
    /\ \E k \in DOMAIN futuros :
          /\ futuros[k].estado = "pending"
          /\ \A j \in 1..(k - 1) : futuros[j].estado # "pending"
          /\ futuros' = [futuros EXCEPT ![k] = Futuro("running", "read", NoRes)]
          /\ ejec_pool' = [ejec_pool EXCEPT ![k] = @ + 1]
    /\ UNCHANGED <<listing, entorno, previo, anterior, pc, archivos, max_workers, consumidos, fb_i, fb_paso, outdir, remove_calls,
                   resultados_exitosos, resultados_con_error, resumen, ejec_seq, orden_fin, salida>>

\* a worker process advances its procesar_imagen call by one step; an exception that
\* leaves the call is stored in the future
WorkerStep(k) ==
    /\ pc = "pool"
    /\ futuros[k].estado = "running"
    /\ \E o \in procesar_imagen(archivos[k], futuros[k].paso, outdir) :
          /\ outdir' = o.od
          /\ remove_calls' = IF o.rem THEN remove_calls \cup {archivos[k]} ELSE remove_calls
          /\ IF o.paso = "ret"
             THEN /\ futuros' = [futuros EXCEPT ![k] = Futuro("done", "none", o.res)]
                  /\ orden_fin' = Append(orden_fin, k)
             ELSE IF o.paso = "raise"
             THEN /\ futuros' = [futuros EXCEPT ![k] = Futuro("error", "none", NoRes)]
                  /\ orden_fin' = Append(orden_fin, k)
             ELSE /\ futuros' = [futuros EXCEPT ![k].paso = o.paso]
                  /\ UNCHANGED orden_fin
    /\ UNCHANGED <<listing, entorno, previo, anterior, pc, archivos, max_workers, consumidos, fb_i, fb_paso,
                   resultados_exitosos, resultados_con_error, resumen, ejec_pool, ejec_seq, salida>>

WorkerCrash_DejaCorriendo ==
    /\ pc = "pool"
    /\ ~Roto
    /\ \E c \in Ejecutando :
          futuros' = [k \in DOMAIN futuros |->
                         IF k = c \/ futuros[k].estado = "pending"
                         THEN Futuro("broken", "none", NoRes)
                         ELSE futuros[k]]
    /\ UNCHANGED <<listing, entorno, previo, anterior, pc, archivos, max_workers, consumidos, fb_i,
                   fb_paso, outdir, remove_calls, resultados_exitosos, resultados_con_error,
                   resumen, ejec_pool, ejec_seq, orden_fin, salida>>

\* a worker process dies: the pool is broken, its processes are terminated where they
\* stand and every future without a result fails
WorkerCrash ==
    /\ pc = "pool"
    /\ ~Roto
    /\ \E k \in DOMAIN futuros : futuros[k].estado \in {"pending", "running"}
    /\ futuros' = [k \in DOMAIN futuros |->
                      IF futuros[k].estado \in {"done", "error"} THEN futuros[k]
                      ELSE Futuro("broken", "none", NoRes)]
    /\ UNCHANGED <<listing, entorno, previo, anterior, pc, archivos, max_workers, consumidos, fb_i, fb_paso, outdir, remove_calls,
                   resultados_exitosos, resultados_con_error, resumen, ejec_pool, ejec_seq,
                   orden_fin, salida>>

Siguiente_Inverso == N - consumidos

Siguiente_PorFin ==
    IF Len(orden_fin) > consumidos THEN orden_fin[consumidos + 1] ELSE consumidos + 1

\* the future executor.map hands to the loop next: the futures are taken in the order
\* the tasks were submitted
Siguiente == consumidos + 1

\* one iteration of the pool loop: print the line, count the result
Consumir ==
    /\ pc = "pool"
    /\ consumidos < N
    /\ futuros[Siguiente].estado = "done"
    /\ consumidos' = consumidos + 1
    /\ salida' = Append(salida, Linea(consumidos + 1, Siguiente, "pool", futuros[Siguiente].resultado))
    /\ Contar(futuros[Siguiente].resultado)
    /\ pc' = IF consumidos' = N THEN "resumen" ELSE "pool"
    /\ UNCHANGED <<listing, entorno, previo, anterior, archivos, max_workers, futuros, fb_i, fb_paso, outdir, remove_calls,
                   resumen, ejec_pool, ejec_seq, orden_fin>>

PoolFailure_SinCaptura ==
    /\ pc = "pool"
    /\ consumidos < N
    /\ futuros[Siguiente].estado \in {"broken", "error"}
    /\ pc' = "abort"
    /\ UNCHANGED <<listing, entorno, previo, anterior, archivos, max_workers, futuros, consumidos, fb_i, fb_paso,
                   outdir, remove_calls, resultados_exitosos, resultados_con_error, resumen,
                   ejec_pool, ejec_seq, orden_fin, salida>>

\* the next future raises: except Exception, then the sequential loop
PoolFailure ==
    /\ pc = "pool"
    /\ consumidos < N
    /\ futuros[Siguiente].estado \in {"broken", "error"}
    /\ EntrarFallback
    /\ UNCHANGED <<listing, entorno, previo, anterior, archivos, max_workers, futuros, consumidos, outdir, remove_calls,
                   resultados_exitosos, resultados_con_error, resumen, ejec_pool, orden_fin, salida>>

\* the sequential loop: one step of procesar_imagen for archivos[fb_i]; when it
\* returns, print the line, count the result and go on to the next file; an
\* exception that leaves the call leaves main
FallbackStep ==
    /\ pc = "fallback"
    /\ \E o \in procesar_imagen(archivos[fb_i], fb_paso, outdir) :
          /\ outdir' = o.od
          /\ remove_calls' = IF o.rem THEN remove_calls \cup {archivos[fb_i]} ELSE remove_calls
          /\ IF o.paso = "ret"
             THEN /\ salida' = Append(salida, Linea(fb_i, fb_i, "fallback", o.res))
                  /\ Contar(o.res)
                  /\ IF fb_i = N
                     THEN /\ pc' = "resumen"
                          /\ fb_paso' = "none"
                          /\ UNCHANGED <<fb_i, ejec_seq>>
                     ELSE /\ fb_i' = fb_i + 1
                          /\ fb_paso' = "read"
                          /\ ejec_seq' = [ejec_seq EXCEPT ![fb_i + 1] = @ + 1]
                          /\ UNCHANGED pc
             ELSE IF o.paso = "raise"
             THEN /\ pc' = "abort"
                  /\ fb_paso' = "none"
                  /\ UNCHANGED <<fb_i, ejec_seq, salida, resultados_exitosos, resultados_con_error>>
             ELSE /\ fb_paso' = o.paso
                  /\ UNCHANGED <<pc, fb_i, ejec_seq, salida, resultados_exitosos, resultados_con_error>>
    /\ UNCHANGED <<listing, entorno, previo, anterior, archivos, max_workers, futuros, consumidos, resumen,
                   ejec_pool, orden_fin>>

\* the final summary
Resumen ==
    /\ pc = "resumen"
    /\ resumen' = <<resultados_exitosos, resultados_con_error>>
    /\ pc' = "done"
    /\ UNCHANGED <<listing, entorno, previo, anterior, archivos, max_workers, futuros, consumidos, fb_i, fb_paso,
                   outdir, remove_calls, resultados_exitosos, resultados_con_error, ejec_pool, ejec_seq,
                   orden_fin, salida>>

Next ==
    \/ CrearCarpeta
    \/ VerificarPermisos
    \/ BuscarArchivos
    \/ Dispatch
    \/ PoolConstructFail
    \/ WorkerTake
    \/ \E k \in DOMAIN futuros : WorkerStep(k)
    \/ WorkerCrash
    \/ Consumir
    \/ PoolFailure
    \/ FallbackStep
    \/ Resumen

Spec == Init /\ [][Next]_vars

FairSpec == Spec /\ WF_vars(Next)

\* ------------------------------------------------------- a second run
\* output_folder = os.path.join(input_folder, "imagenes_sin_fondo"): the output folder
\* is an entry of the input directory
imagenes_sin_fondo ==
    <<"i", "m", "a", "g", "e", "n", "e", "s", "_", "s", "i", "n", "_", "f", "o", "n", "d", "o">>

\* per file, how the results main printed for it were classified (success or not)
Clasificacion ==
    [f \in {archivos[k] : k \in DOMAIN archivos} |->
        {salida[j].kind = "success" : j \in {i \in DOMAIN salida : archivos[salida[i].idx] = f}}]

\* the output filenames the success results name
Producidos ==
    {OutputFilename(archivos[salida[j].idx]) : j \in {i \in DOMAIN salida : salida[i].kind = "success"}}

RECURSIVE SoloDe(_, _)
SoloDe(s, S) ==
    IF s = <<>> THEN <<>>
    ELSE (IF Head(s) \in S THEN <<Head(s)>> ELSE <<>>) \o SoloDe(Tail(s), S)

\* what os.listdir can return in a later run on the directory: the candidate files as
\* before, the output folder, entries that are no candidates
ListingsDespues ==
    LET cand == {archivos[k] : k \in DOMAIN archivos}
        S == cand \cup {imagenes_sin_fondo} \cup {f \in Entradas : ~EsImagen(f)}
    IN {l \in UNION {[1..n -> S] : n \in 1..(MaxFiles + 1)} :
            /\ \A j, k \in DOMAIN l : j # k => l[j] # l[k]
            /\ \E k \in DOMAIN l : l[k] = imagenes_sin_fondo
            /\ SoloDe(l, cand) = archivos}

\* main is started again on the same input directory: the output folder keeps what
\* the first run wrote, everything else starts as in Init
Reiniciar ==
    /\ pc = "done"
    /\ anterior = <<>>
    /\ anterior' = <<[archivos |-> archivos, clasificacion |-> Clasificacion, producidos |-> Producidos]>>
    /\ listing' \in ListingsDespues
    /\ pc' = "crear_carpeta"
    /\ previo' = [carpeta |-> FALSE, permisos |-> "none"]
    /\ archivos' = <<>>
    /\ max_workers' = 0
    /\ futuros' = <<>>
    /\ consumidos' = 0
    /\ fb_i' = 0
    /\ fb_paso' = "none"
    /\ remove_calls' = {}
    /\ resultados_exitosos' = 0
    /\ resultados_con_error' = 0
    /\ resumen' = <<>>
    /\ ejec_pool' = <<>>
    /\ ejec_seq' = <<>>
    /\ orden_fin' = <<>>
    /\ salida' = <<>>
    /\ UNCHANGED <<entorno, outdir>>

SpecDosCorridas == Init /\ [][Next \/ Reiniciar]_vars

\* ------------------------------------------------ the sequential baseline
RECURSIVE Llamada(_, _, _)
\* a whole call procesar_imagen((input_folder, output_folder, filename)) run without
\* interruption from position p: the set of (result, output directory) it can end with
Llamada(filename, p, od) ==
    UNION { IF o.paso = "ret" THEN {[res |-> o.res, od |-> o.od]}
            ELSE IF o.paso = "raise" THEN {}
            ELSE Llamada(filename, o.paso, o.od) : o \in procesar_imagen(filename, p, od) }

RECURSIVE Secuencial(_, _, _)
\* the sequential loop over archivos[k..N] alone, from output directory od with the
\* per-file outcomes hist so far: the set of outcome sequences it can end with
Secuencial(k, od, hist) ==
    IF k > N THEN {hist}
    ELSE UNION { Secuencial(k + 1, r.od, Append(hist, r.res)) : r \in Llamada(archivos[k], "read", od) }

OutdirInicial == [o \in OutNames |-> "absent"]

Exitosos(rs) == Cardinality({k \in DOMAIN rs : Contiene(rs[k].msg, CHECK)})

\* the (succeeded, failed) pairs a purely sequential run of the task list can report
ConteosSecuenciales ==
    { <<Exitosos(rs), Len(rs) - Exitosos(rs)>> : rs \in Secuencial(1, OutdirInicial, <<>>) }

\* the per-task outcome kinds a purely sequential run of the task list can produce
KindsSecuenciales ==
    { [k \in DOMAIN rs |-> rs[k].kind] : rs \in Secuencial(1, OutdirInicial, <<>>) }

HuboFallback == fb_i > 0

LineasDe(fase) == {j \in DOMAIN salida : salida[j].fase = fase}

\* ---------------------------------------------------------------- claims

\* C1: in every finished run the summary's counts add up to the number of tasks,
\* also when the pool failed after some results had been counted.
C1_CountsSumToN ==
    pc = "done" => resumen[1] + resumen[2] = N

\* C2: after a pool failure the final counts are those of a purely sequential run of
\* the same task list; what the pool delivered before the failure does not count.
C2_FallbackMatchesSequential ==
    (pc = "done" /\ HuboFallback) => resumen \in ConteosSecuenciales

\* C3: no task is started twice by the pool; the fallback loop starts only after a
\* pool failure, starts the tasks one at a time in listing order, each exactly once,
\* and prints their lines in that order.
C3_OncePerMode ==
    /\ \A k \in DOMAIN ejec_pool : ejec_pool[k] <= 1
    /\ \A k \in DOMAIN ejec_seq : ejec_seq[k] = (IF HuboFallback /\ k <= fb_i THEN 1 ELSE 0)
    /\ HuboFallback =>
          /\ futuros = <<>> \/ Roto
          /\ Ejecutando = {}
          /\ pc \in {"fallback", "resumen", "done"}
          /\ Cardinality(LineasDe("fallback")) = (IF pc = "fallback" THEN fb_i - 1 ELSE N)
          /\ \A j \in LineasDe("fallback") :
                /\ salida[j].idx = salida[j].i
                /\ salida[j].i = j - Cardinality(LineasDe("pool"))
    /\ (pc \in {"resumen", "done"} /\ HuboFallback) => \A k \in DOMAIN ejec_seq : ejec_seq[k] = 1

C3_Witness ==
    /\ pc = "done"
    /\ HuboFallback
    /\ N >= 2
    /\ \E k \in DOMAIN ejec_pool : ejec_pool[k] = 1
    /\ \E j \in LineasDe("fallback") : salida[j].kind # "success"
    /\ \E j \in LineasDe("fallback") : salida[j].kind = "success"

Faltan(k) == \A j \in DOMAIN salida : salida[j].idx # k

\* C4: a fault of a collaborator ends the call with a failure result, never with an
\* exception in the future; it alone neither starts the fallback nor ends the run,
\* and every task of the batch is still reported and counted.
C4_Isolation ==
    /\ \A k \in DOMAIN futuros : futuros[k].estado # "error"
    /\ \A j \in DOMAIN salida :
          entorno[archivos[salida[j].idx]] # "ok" => salida[j].kind \notin {"success", "none"}
    /\ HuboFallback => (futuros = <<>> \/ Roto)
    /\ pc = "abort" => archivos = <<>>
    /\ pc = "done" => \A k \in DOMAIN archivos : ~Faltan(k)
    /\ (pc = "done" /\ ~HuboFallback) =>
          /\ Len(salida) = N
          /\ resultados_exitosos + resultados_con_error = N

C4_Witness ==
    /\ pc = "done"
    /\ ~HuboFallback
    /\ \E j, k \in DOMAIN salida :
          /\ salida[j].kind = "exception"
          /\ entorno[archivos[salida[j].idx]] = "remove_raises"
          /\ salida[k].kind = "success"
          /\ j < k
    /\ resultados_exitosos >= 1
    /\ resultados_con_error >= 1

\* C5: once dispatch has started the run reaches the summary.
C5_DispatchLeadsToDone ==
    (pc = "dispatch") ~> (pc = "done")

C5_Witness ==
    /\ pc = "done"
    /\ HuboFallback
    /\ Roto

\* C6 as stated: the i-th result the pool loop takes is that of the i-th task to finish.
C6_CompletionOrder ==
    \A j \in LineasDe("pool") : salida[j].idx = orden_fin[j]

\* C6 as amended: the i-th result the pool loop takes is that of the i-th task
\* submitted, also when a task submitted later finished first.
C6_SubmissionOrder ==
    \A j \in LineasDe("pool") : salida[j].idx = j /\ salida[j].i = j

C6_Witness ==
    /\ Len(orden_fin) >= 2
    /\ orden_fin[1] = 2
    /\ 1 \in LineasDe("pool")
    /\ salida[1].idx = 1

\* C7: a run of the pool that did not fail gives every task the outcome a purely
\* sequential run gives it.
C7_SameAsOneWorker ==
    (pc = "done" /\ ~HuboFallback) =>
        [k \in DOMAIN futuros |-> futuros[k].resultado.kind] \in KindsSecuenciales

\* a worker has the output file open for writing / is about to test what it wrote
Escribe(k) == futuros[k].estado = "running" /\ futuros[k].paso = "save_write"
Verifica(k) == futuros[k].estado = "running" /\ futuros[k].paso = "verify"

\* C8: the output paths of distinct tasks differ, so no worker has an output file
\* open for writing while another worker writes or verifies the same file.
C8_OwnOutputFile ==
    \A j, k \in DOMAIN futuros :
        (j # k /\ Escribe(j) /\ (Escribe(k) \/ Verifica(k))) =>
            OutputFilename(archivos[j]) # OutputFilename(archivos[k])

\* C9: at most min(2, N) calls of procesar_imagen run at once, a pool has at least
\* one worker, and in the fallback only the loop's own call runs.
C9_WorkerBound ==
    /\ Cardinality(Ejecutando) <= (IF N < 2 THEN N ELSE 2)
    /\ pc = "pool" => max_workers >= 1
    /\ pc = "fallback" => (Ejecutando = {} /\ fb_paso # "none" /\ fb_i \in 1..N)
    /\ pc # "fallback" => fb_paso = "none"

C9_Witness ==
    /\ N = 3
    /\ Cardinality(Ejecutando) = 2
    /\ futuros[3].estado = "pending"

EnCurso ==
    {archivos[k] : k \in Ejecutando} \cup (IF pc = "fallback" THEN {archivos[fb_i]} ELSE {})

SinEscritura == {"missing", "empty", "remove_raises", "remove_empty", "decode_error"}

\* C10: a step changes the output directory only for the output file of a call that
\* is past the decoding, and remove() is invoked only on files that were found with
\* data: a call that ends not-found, empty-input, collaborator-error,
\* empty-collaborator-output or decode-error leaves the output directory as it was.
C10_Frame ==
    [][ /\ outdir' # outdir =>
              \E f \in EnCurso :
                  /\ entorno[f] \notin SinEscritura
                  /\ \A o \in OutNames : o # OutputFilename(f) => outdir'[o] = outdir[o]
        /\ \A f \in remove_calls' : entorno[f] \notin {"missing", "empty"}
        /\ (Len(orden_fin') > Len(orden_fin)
              /\ entorno[archivos[orden_fin'[Len(orden_fin')]]] \in SinEscritura) => outdir' = outdir
        /\ (Len(salida') > Len(salida)
              /\ salida'[Len(salida')].fase = "fallback"
              /\ entorno[archivos[salida'[Len(salida')].idx]] \in SinEscritura) => outdir' = outdir
      ]_vars

C10_Witness ==
    /\ pc = "done"
    /\ \E j \in DOMAIN salida : salida[j].kind = "not_found"
    /\ \E j \in DOMAIN salida : salida[j].causa = "decode_error"
    /\ \E o \in OutNames : outdir[o] = "full"
    /\ \E o \in OutNames : outdir[o] = "absent"

SinEjecucion ==
    /\ futuros = <<>>
    /\ \A k \in DOMAIN ejec_pool : ejec_pool[k] = 0
    /\ \A k \in DOMAIN ejec_seq : ejec_seq[k] = 0
    /\ fb_paso = "none"
    /\ remove_calls = {}
    /\ salida = <<>>

\* C11: a task runs only after the output folder was created, the write probe
\* succeeded and a candidate file was found; a run that fails one of the three ends
\* with no call of procesar_imagen and no summary; the folder is created in the
\* pre-flight and by no later step.
C11_PreflightFirst ==
    /\ [](/\ (~SinEjecucion \/ pc \in {"dispatch", "pool", "fallback", "resumen", "done"}) =>
                (previo.carpeta /\ previo.permisos = "ok" /\ archivos # <<>>)
          /\ pc = "abort" =>
                /\ SinEjecucion
                /\ resumen = <<>>
                /\ outdir = OutdirInicial
                /\ ~previo.carpeta \/ previo.permisos = "fail"
                      \/ (previo.permisos = "ok" /\ archivos = <<>>)
          /\ (~previo.carpeta \/ previo.permisos # "ok") => archivos = <<>>)
    /\ [][previo.carpeta' # previo.carpeta => (pc = "crear_carpeta" /\ SinEjecucion)]_vars

C11_Witness ==
    /\ pc = "abort"
    /\ previo.carpeta
    /\ previo.permisos = "fail"
    /\ listing # <<>>
    /\ \E k \in DOMAIN listing : EsImagen(listing[k])

\* C12: a second run of main on the directory has the task list of the first run,
\* names the same output files and classifies every file as the first run did.
C12_Idempotent ==
    (pc = "done" /\ anterior # <<>>) =>
        /\ archivos = anterior[1].archivos
        /\ Producidos = anterior[1].producidos
        /\ Clasificacion = anterior[1].clasificacion

ConSuccess == {j \in DOMAIN salida : salida[j].kind = "success"}

\* C13: a result is counted as succeeded exactly when procesar_imagen returned from
\* its success return, and as failed exactly when it returned a failure, whatever the
\* filename and the error text in the message.
C13_CountsByVariant ==
    /\ resultados_exitosos = Cardinality(ConSuccess)
    /\ resultados_con_error = Len(salida) - Cardinality(ConSuccess)

\* C14: a call returns success only from its verification step and only when the
\* output file is there with data at that moment; when the file is absent or empty at
\* the verification the call returns the save-error failure.
C14_SuccessOnlyVerified ==
    [][ /\ \A k \in DOMAIN futuros \cap DOMAIN futuros' :
              (futuros[k].estado = "running" /\ futuros'[k].estado = "done") =>
                  LET r == futuros'[k].resultado
                      o == OutputFilename(archivos[k])
                  IN /\ r.kind = "success" => (futuros[k].paso = "verify" /\ outdir[o] = "full")
                     /\ (futuros[k].paso = "verify" /\ outdir[o] # "full") => r.kind = "save_unverified"
        /\ (pc = "fallback" /\ Len(salida') > Len(salida)) =>
              LET r == salida'[Len(salida')]
                  o == OutputFilename(archivos[fb_i])
              IN /\ r.kind = "success" => (fb_paso = "verify" /\ outdir[o] = "full")
                 /\ (fb_paso = "verify" /\ outdir[o] # "full") => r.kind = "save_unverified"
      ]_vars

C14_Witness ==
    \E j, k \in DOMAIN futuros :
        /\ futuros[k].resultado.kind = "save_unverified"
        /\ entorno[archivos[k]] = "ok"
        /\ futuros[j].resultado.kind = "success"

Fallidas == {j \in DOMAIN salida : salida[j].causa # "none"}

\* the failure kind the taxonomy gives a cause
TipoTaxonomia(causa) ==
    CASE causa = "missing" -> "NotFound"
      [] causa = "empty" -> "EmptyInput"
      [] causa \in {"remove_raises", "remove_empty"} -> "SegmentationError"
      [] causa = "decode_error" -> "DecodeError"
      [] causa = "save_error" -> "WriteError"
      [] causa = "unverified" -> "WriteVerificationFailed"

\* C15 as stated: two failures are of the same kind exactly when the taxonomy gives
\* their causes the same kind; a decode failure and a save failure differ in kind from
\* a collaborator error.
C15_KindPerCause ==
    \A j, k \in Fallidas :
        (salida[j].clase = salida[k].clase) <=>
            (TipoTaxonomia(salida[j].causa) = TipoTaxonomia(salida[k].causa))

\* the failure message the code gives a cause
TextoDeCausa(causa) ==
    CASE causa = "missing" -> "Archivo no encontrado: "
      [] causa = "empty" -> "No se pudieron leer datos de: "
      [] causa \in {"remove_raises", "remove_empty", "decode_error", "save_error"} -> "Error con "
      [] causa = "unverified" -> "Error al guardar: "

\* C15 as amended: missing input, zero bytes read and a missing or empty written file
\* have a failure message of their own; collaborator error, empty collaborator output,
\* undecodable output and save error all return the message "Error con <filename>: ...",
\* so a decode failure and a save failure are of the kind of a collaborator error.
C15_MessagePerCause ==
    /\ \A j \in Fallidas : salida[j].clase = TextoDeCausa(salida[j].causa)
    /\ \A j \in DOMAIN salida \ Fallidas : salida[j].clase = "Procesado exitosamente: "
    /\ \A j, k \in Fallidas :
          (salida[j].causa \in {"decode_error", "save_error"} /\ salida[k].causa = "remove_raises")
              => salida[j].clase = salida[k].clase

C15_Witness ==
    /\ \E j \in Fallidas : salida[j].causa = "decode_error"
    /\ \E j \in Fallidas : salida[j].causa = "save_error"
    /\ \E j \in Fallidas : salida[j].causa = "remove_raises"

\* the entries of Entradas whose extension is, case-insensitively, one of the six
Candidatas == {a_jpg, a_png, b_JPG}

\* the enumeration step: the task list is the candidates of the listing, in listing order
C16_Enumeracion ==
    [][pc = "buscar" =>
          /\ archivos' = SoloDe(listing, Candidatas)
          /\ listing = <<a_jpg, n_txt, a_png>> => archivos' = <<a_jpg, a_png>>]_vars

\* C16: the task list holds exactly the entries of the listing with one of the six
\* extensions (case-insensitively), in listing order; a directory with a valid image,
\* an entry with another extension and a zero-byte image gives a task list of the two
\* images and the summary succeeded=1, failed=1.
C16_EnumerationAndExample ==
    /\ C16_Enumeracion
    /\ []((/\ pc = "done"
           /\ archivos = <<a_jpg, a_png>>
           /\ entorno[a_jpg] = "ok"
           /\ entorno[a_png] = "empty") => resumen = <<1, 1>>)

\* C17: while the fallback loop runs, the pool is gone: no future is waiting or being
\* executed by a worker, so no call of the loop overlaps a call of a worker.
C17_NoOverlap ==
    /\ fb_paso # "none" => Ejecutando = {}
    /\ pc = "fallback" =>
          \A k \in DOMAIN futuros : futuros[k].estado \in {"done", "broken", "error"}

C17_Witness ==
    /\ pc = "fallback"
    /\ fb_paso = "save_write"
    /\ fb_i \in DOMAIN futuros
    /\ futuros[fb_i].estado = "broken"
    /\ ejec_pool[fb_i] = 1
    /\ \E k \in DOMAIN futuros : k # fb_i /\ futuros[k].estado = "broken" /\ ejec_pool[k] = 1

\* C18: in the pool phase and in the fallback loop alike, the line numbered i reports
\* archivos[i], the lines of a phase are numbered 1, 2, ... in the order they are
\* printed, and within a phase no file is reported before a file listed earlier.
C18_LinesInListingOrder ==
    /\ \A j \in DOMAIN salida :
          /\ salida[j].idx = salida[j].i
          /\ salida[j].i = (IF salida[j].fase = "pool" THEN j ELSE j - Cardinality(LineasDe("pool")))
    /\ \A j, k \in DOMAIN salida :
          (j < k /\ salida[j].fase = salida[k].fase) => salida[j].idx < salida[k].idx
    /\ \A j \in LineasDe("pool"), k \in LineasDe("fallback") : j < k

C18_Witness ==
    /\ Cardinality(LineasDe("pool")) >= 1
    /\ Cardinality(LineasDe("fallback")) >= 2
    /\ Len(orden_fin) >= 2
    /\ orden_fin[1] > orden_fin[2]

TypeOK ==
    /\ pc \in {"crear_carpeta", "permisos", "buscar", "dispatch", "pool", "fallback", "resumen", "done", "abort"}
    /\ consumidos \in 0..MaxFiles
    /\ \A o \in OutNames : outdir[o] \in {"absent", "empty", "full"}
====
